---- MODULE Spec2Model ----
(***************************************************************************)
(* Galileosky device command protocol of haryowl/ohwmob.                   *)
(*                                                                         *)
(*   - the codec: calculateCRC16, buildCommandPacket, parseResponsePacket  *)
(*     and validateCommandPacket of the command system test script;        *)
(*   - the manual tester's buildCommandPacket and sendCommand: one socket, *)
(*     one promise and one timer per call;                                 *)
(*   - the connection registry, correlation engine and dispatch facade,    *)
(*     which the scripts only call through the HTTP API.                   *)
(*                                                                         *)
(* Buffers are sequences of bytes (0..255); a JavaScript offset o is the   *)
(* sequence index o + 1.  TLC's integers end at 2^31 - 1, so the           *)
(* 32-bit command numbers of the model are those of 0..2^31 - 1.           *)
(***************************************************************************)
EXTENDS Integers, Sequences, FiniteSets, TLC

VARIABLES
    \* codec harness
    cphase,      \* "input" | "ready" | "done" | "failed" ("idle": harness unused)
    fields,      \* the field set handed to buildCommandPacket
    packet,      \* the buffer under test
    origin,      \* how packet was produced
    result,      \* what parseResponsePacket returned for packet
    vresult,     \* what validateCommandPacket returned for packet
    \* manual tester
    promise, settledBy, sock, timer, written, closeLogged, timeoutLogged,
    dataLogged, errorLogged, lateData, commandId,
    received,    \* per call: the bytes its data handler was given, <<>> before
    proc,        \* the node process: "running", or how it ended
    awaiting,    \* the menu selection whose handler awaits the pending sendCommand
    stdin,       \* "open", or "ended": the readline interface has closed
    testClient,  \* the socket of the reachability check made at start
    \* registry, correlation engine, facade
    registry, sessions, requests, wire, nextSession,
    late         \* requests a reply came for after they had left the table

codecVars == <<cphase, fields, packet, origin, result, vresult>>
callVars == <<promise, settledBy, sock, timer, written, closeLogged,
              timeoutLogged, dataLogged, errorLogged, lateData, received,
              proc, awaiting, stdin, testClient>>
testerVars == <<callVars, commandId>>
engineVars == <<registry, sessions, requests, wire, nextSession, late>>
vars == <<codecVars, testerVars, engineVars>>

----------------------------------------------------------------------------
(* Bounds of the model *)

\* longest command text drawn as an input
MaxTextLen == 2

\* sendCommand calls of the manual tester in one run
MaxCalls == 2

\* packets that reach a connection after its socket was destroyed, in one run
MaxLate == 1

\* device sessions accepted, and commands dispatched, in one run
MaxSessions == 2
MaxRequests == 2

----------------------------------------------------------------------------
(* Program constants *)

CRC_INIT == 65535          \* 0xFFFF
CRC_POLY == 40961          \* 0xA001
HEADER == 1                \* 0x01
TAG_IMEI == 3              \* 0x03
TAG_DEVICE == 4            \* 0x04
TAG_NUMBER == 224          \* 0xE0
TAG_TEXT == 225            \* 0xE1
TAG_EXTRA == 235           \* 0xEB
IMEI_LEN == 15
MANUAL_HEADER == 3         \* 0x03, the manual tester's header

Min(a, b) == IF a < b THEN a ELSE b

----------------------------------------------------------------------------
(* Buffer primitives of Node.js, as the scripts use them *)

\* a ^ b bit by bit
RECURSIVE XorBits(_, _)
XorBits(a, b) ==
    IF a = 0 THEN b
    ELSE IF b = 0 THEN a
    ELSE ((a + b) % 2) + 2 * XorBits(a \div 2, b \div 2)

\* a ^ b for all pairs of four-bit values
XorNibbles == [a \in 0..15 |-> [b \in 0..15 |-> XorBits(a, b)]]

\* a ^ b on the non-negative integers the scripts hold, four bits at a time
RECURSIVE Xor(_, _)
Xor(a, b) ==
    IF a = 0 THEN b
    ELSE IF b = 0 THEN a
    ELSE XorNibbles[a % 16][b % 16] + 16 * Xor(a \div 16, b \div 16)

\* buf.writeUInt16LE(v, 0) on a 2-byte buffer
UInt16LE(v) == <<v % 256, (v \div 256) % 256>>

\* buf.writeUInt32LE(v, 0) on a 4-byte buffer
UInt32LE(v) ==
    <<v % 256, (v \div 256) % 256, (v \div 65536) % 256, (v \div 16777216) % 256>>

\* writeUInt8, writeUInt16LE and writeUInt32LE throw a RangeError unless
\* 0 <= v < 2^bits; every integer of the model is below 2^32
FitsUInt(v, bits) == v >= 0 /\ (bits < 32 => v < 2 ^ bits)

\* Buffer.from(text, 'ascii'): one byte per character, its low 8 bits
AsciiEncode(text) == [i \in 1..Len(text) |-> text[i] % 256]

\* buf.toString('ascii'): one character per byte, its low 7 bits
AsciiDecode(bytes) == [i \in 1..Len(bytes) |-> bytes[i] % 128]

\* Buffer.alloc(15) then write(targetIMEI, 0, 15, 'ascii'): zero padded, cut at 15
ImeiField(targetIMEI) ==
    [i \in 1..IMEI_LEN |-> IF i <= Len(targetIMEI) THEN targetIMEI[i] % 256 ELSE 0]

\* data.slice(from, to) for 0 <= from <= to: clamped to the buffer
Slice(data, from, to) == SubSeq(data, from + 1, Min(to, Len(data)))

\* data.readUInt16LE(o) and data.readUInt32LE(o), for reads inside the buffer
ReadUInt16LE(data, o) == data[o + 1] + 256 * data[o + 2]
ReadUInt32LE(data, o) ==
    data[o + 1] + 256 * data[o + 2] + 65536 * data[o + 3] + 16777216 * data[o + 4]

----------------------------------------------------------------------------
(* calculateCRC16 *)

\* the inner loop: for (j = 0; j < 8; j++)
RECURSIVE CrcShift(_, _)
CrcShift(crc, j) ==
    IF j = 8 THEN crc
    ELSE CrcShift(IF crc % 2 = 1 THEN Xor(crc \div 2, CRC_POLY) ELSE crc \div 2, j + 1)

\* the outer loop: for (i = 0; i < buffer.length; i++).  The register is never
\* negative; the test crc >= 0 makes TLC evaluate it at every byte instead of
\* nesting the whole computation
RECURSIVE CrcLoop(_, _, _)
CrcLoop(buffer, i, crc) ==
    IF i < Len(buffer) /\ crc >= 0
    THEN CrcLoop(buffer, i + 1, CrcShift(Xor(crc, buffer[i + 1]), 0))
    ELSE crc

\* calculateCRC16 with the register cleared at the start
crcFromZero(buffer) == CrcLoop(buffer, 0, 0)

calculateCRC16(buffer) == CrcLoop(buffer, 0, CRC_INIT)

\* the manual tester's copy of calculateCRC16: its inner loop, its outer loop
\* and the function, with the literals 0xFFFF and 0xA001 as written there
RECURSIVE ManualCrcShift(_, _)
ManualCrcShift(crc, j) ==
    IF j < 8
    THEN ManualCrcShift(IF crc % 2 = 1 THEN Xor(crc \div 2, 40961) ELSE crc \div 2,
                        j + 1)
    ELSE crc

RECURSIVE ManualCrcLoop(_, _, _)
ManualCrcLoop(buffer, i, crc) ==
    IF i < Len(buffer) /\ crc >= 0
    THEN ManualCrcLoop(buffer, i + 1, ManualCrcShift(Xor(crc, buffer[i + 1]), 0))
    ELSE crc

manualCalculateCRC16(buffer) == ManualCrcLoop(buffer, 0, 65535)

----------------------------------------------------------------------------
(* buildCommandPacket *)

\* the tagged fields with the text written without its length byte
TaggedFieldsWithoutTextLength(targetIMEI, deviceNumber, commandText, commandNumber) ==
    <<TAG_IMEI>> \o ImeiField(targetIMEI)
    \o <<TAG_DEVICE>> \o UInt16LE(deviceNumber)
    \o <<TAG_NUMBER>> \o UInt32LE(commandNumber)
    \o <<TAG_TEXT>> \o AsciiEncode(commandText)

\* the tagged fields, in the order the builder appends them
TaggedFields(targetIMEI, deviceNumber, commandText, commandNumber) ==
    <<TAG_IMEI>> \o ImeiField(targetIMEI)
    \o <<TAG_DEVICE>> \o UInt16LE(deviceNumber)
    \o <<TAG_NUMBER>> \o UInt32LE(commandNumber)
    \o <<TAG_TEXT>> \o <<Len(AsciiEncode(commandText)) % 256>> \o AsciiEncode(commandText)

\* header, back-patched length (packet.length - 3 before the CRC is appended), body, CRC
Framed(header, lengthField, body, crc) ==
    <<header>> \o UInt16LE(lengthField) \o body \o UInt16LE(crc)

\* buildCommandPacket whose length field counts the checksum as well
buildCountingChecksum(targetIMEI, deviceNumber, commandText, commandNumber) ==
    IF ~FitsUInt(deviceNumber, 16) \/ ~FitsUInt(commandNumber, 32)
         \/ ~FitsUInt(Len(AsciiEncode(commandText)), 8)
    THEN [threw |-> TRUE, packet |-> <<>>]
    ELSE LET body == TaggedFields(targetIMEI, deviceNumber, commandText, commandNumber)
             dataLength == (3 + Len(body)) - 1
             unsigned == <<HEADER>> \o UInt16LE(dataLength) \o body
         IN  [threw |-> FALSE,
              packet |-> unsigned \o UInt16LE(calculateCRC16(unsigned))]

\* buildCommandPacket that appends the checksum high byte first
buildChecksumBigEndian(targetIMEI, deviceNumber, commandText, commandNumber) ==
    IF ~FitsUInt(deviceNumber, 16) \/ ~FitsUInt(commandNumber, 32)
         \/ ~FitsUInt(Len(AsciiEncode(commandText)), 8)
    THEN [threw |-> TRUE, packet |-> <<>>]
    ELSE LET body == TaggedFields(targetIMEI, deviceNumber, commandText, commandNumber)
             dataLength == (3 + Len(body)) - 3
             unsigned == <<HEADER>> \o UInt16LE(dataLength) \o body
             crc == calculateCRC16(unsigned)
         IN  [threw |-> FALSE,
              packet |-> unsigned \o <<crc \div 256, crc % 256>>]

\* a write that throws leaves no packet: the call ends in a RangeError
buildCommandPacket(targetIMEI, deviceNumber, commandText, commandNumber) ==
    IF ~FitsUInt(deviceNumber, 16) \/ ~FitsUInt(commandNumber, 32)
         \/ ~FitsUInt(Len(AsciiEncode(commandText)), 8)
    THEN [threw |-> TRUE, packet |-> <<>>]
    ELSE LET body == TaggedFields(targetIMEI, deviceNumber, commandText, commandNumber)
             dataLength == (3 + Len(body)) - 3
             unsigned == <<HEADER>> \o UInt16LE(dataLength) \o body
         IN  [threw |-> FALSE,
              packet |-> unsigned \o UInt16LE(calculateCRC16(unsigned))]

----------------------------------------------------------------------------
(* buildCommandPacket of the manual tester: header 0x03, then the command    *)
(* type, the IMEI and the optional 16-bit values.  An absent property of     *)
(* commandData is the empty sequence, a present one the sequence of its value *)

NoData == [outputStates |-> <<>>, interval |-> <<>>]

\* one optional 16-bit value of commandData: nothing when undefined
OptionalUInt16(property) ==
    IF property = <<>> THEN <<>> ELSE UInt16LE(property[1])

\* commandPayload: type byte, 15-byte IMEI, outputStates, interval
CommandPayload(commandType, targetIMEI, commandData) ==
    <<commandType>> \o ImeiField(targetIMEI)
    \o OptionalUInt16(commandData.outputStates)
    \o OptionalUInt16(commandData.interval)

manualBuildCommandPacket(commandType, targetIMEI, commandData) ==
    IF ~FitsUInt(commandType, 8)
         \/ (commandData.outputStates # <<>> /\ ~FitsUInt(commandData.outputStates[1], 16))
         \/ (commandData.interval # <<>> /\ ~FitsUInt(commandData.interval[1], 16))
    THEN [threw |-> TRUE, packet |-> <<>>]
    ELSE LET commandPayload == CommandPayload(commandType, targetIMEI, commandData)
             unsigned == <<MANUAL_HEADER>> \o UInt16LE(Len(commandPayload))
                            \o commandPayload
         IN  [threw |-> FALSE,
              packet |-> unsigned \o UInt16LE(manualCalculateCRC16(unsigned))]

----------------------------------------------------------------------------
(* parseResponsePacket *)

Invalid(error) ==
    [valid |-> FALSE, error |-> error, imei |-> <<>>, deviceNumber |-> 0,
     commandNumber |-> 0, replyText |-> <<>>, hasAdditionalData |-> FALSE,
     additionalData |-> <<>>]

\* the locals before the loop; offset 3 skips header and length
ScanStart ==
    [offset |-> 3, threw |-> FALSE, imei |-> <<>>, deviceNumber |-> 0,
     commandNumber |-> 0, replyText |-> <<>>, hasAdditionalData |-> FALSE,
     additionalData |-> <<>>, tags |-> <<>>]

\* one iteration of the while loop: read the tag at st.offset and its field
ScanStep(data, st) ==
    LET tag == data[st.offset + 1]
        o == st.offset + 1
        seen == [st EXCEPT !.tags = Append(@, st.offset)]
    IN  CASE tag = TAG_IMEI ->
               [seen EXCEPT !.imei = AsciiDecode(Slice(data, o, o + IMEI_LEN)),
                            !.offset = o + IMEI_LEN]
          [] tag = TAG_DEVICE ->
               IF o + 2 > Len(data) THEN [seen EXCEPT !.threw = TRUE, !.offset = o]
               ELSE [seen EXCEPT !.deviceNumber = ReadUInt16LE(data, o), !.offset = o + 2]
          [] tag = TAG_NUMBER ->
               IF o + 4 > Len(data) THEN [seen EXCEPT !.threw = TRUE, !.offset = o]
               ELSE [seen EXCEPT !.commandNumber = ReadUInt32LE(data, o), !.offset = o + 4]
          [] tag = TAG_TEXT ->
               IF o + 1 > Len(data) THEN [seen EXCEPT !.threw = TRUE, !.offset = o]
               ELSE LET replyLength == data[o + 1]
                    IN  [seen EXCEPT
                           !.replyText = AsciiDecode(Slice(data, o + 1, o + 1 + replyLength)),
                           !.offset = o + 1 + replyLength]
          [] tag = TAG_EXTRA ->
               IF o + 1 > Len(data) THEN [seen EXCEPT !.threw = TRUE, !.offset = o]
               ELSE LET dataLength == data[o + 1]
                    IN  [seen EXCEPT
                           !.hasAdditionalData = TRUE,
                           !.additionalData = Slice(data, o + 1, o + 1 + dataLength),
                           !.offset = o + 1 + dataLength]
          [] OTHER -> [seen EXCEPT !.offset = o + 1]

\* the tags the switch has a case for
KnownTags == {TAG_IMEI, TAG_DEVICE, TAG_NUMBER, TAG_TEXT, TAG_EXTRA}

\* a loop whose default case consumes the unknown tag alone
RECURSIVE ScanSkippingTagOnly(_, _)
ScanSkippingTagOnly(data, st) ==
    IF st.threw \/ ~(st.offset < Len(data) - 2) THEN st
    ELSE ScanSkippingTagOnly(data,
            IF data[st.offset + 1] \in KnownTags THEN ScanStep(data, st)
            ELSE [ScanStep(data, st) EXCEPT !.offset = @ - 1])

\* a loop that takes an IMEI field only as the first field and stops at a later one
RECURSIVE ScanImeiFirst(_, _)
ScanImeiFirst(data, st) ==
    IF st.threw \/ ~(st.offset < Len(data) - 2)
         \/ (data[st.offset + 1] = TAG_IMEI /\ st.tags # <<>>)
    THEN st
    ELSE ScanImeiFirst(data, ScanStep(data, st))

\* while (offset < data.length - 2)
RECURSIVE Scan(_, _)
Scan(data, st) ==
    IF st.threw \/ ~(st.offset < Len(data) - 2) THEN st
    ELSE Scan(data, ScanStep(data, st))

\* data.length !== length + 3
LengthRejected(data) == Len(data) # ReadUInt16LE(data, 1) + 3

\* calculatedCRC !== packetCRC
CrcRejected(data) ==
    calculateCRC16(Slice(data, 0, Len(data) - 2)) # ReadUInt16LE(data, Len(data) - 2)

\* parseResponsePacket with the CRC comparison left out
parseSkippingCrc(data) ==
    IF Len(data) < 5 THEN Invalid("Packet too short")
    ELSE IF data[1] # HEADER THEN Invalid("Invalid header (should be 0x01)")
    ELSE IF LengthRejected(data) THEN Invalid("Length mismatch")
    ELSE LET st == Scan(data, ScanStart)
         IN  IF st.threw THEN Invalid("RangeError")
             ELSE [valid |-> TRUE, error |-> "", imei |-> st.imei,
                   deviceNumber |-> st.deviceNumber,
                   commandNumber |-> st.commandNumber, replyText |-> st.replyText,
                   hasAdditionalData |-> st.hasAdditionalData,
                   additionalData |-> st.additionalData]

\* parseResponsePacket without its try/catch: the RangeError of a read leaves
\* the function
parseWithoutCatch(data) ==
    IF Len(data) < 5 THEN Invalid("Packet too short")
    ELSE IF data[1] # HEADER THEN Invalid("Invalid header (should be 0x01)")
    ELSE IF LengthRejected(data) THEN Invalid("Length mismatch")
    ELSE LET st == Scan(data, ScanStart)
         IN  IF st.threw THEN Invalid("uncaught RangeError")
             ELSE IF CrcRejected(data) THEN Invalid("CRC mismatch")
             ELSE [valid |-> TRUE, error |-> "", imei |-> st.imei,
                   deviceNumber |-> st.deviceNumber,
                   commandNumber |-> st.commandNumber, replyText |-> st.replyText,
                   hasAdditionalData |-> st.hasAdditionalData,
                   additionalData |-> st.additionalData]

parseResponsePacket(data) ==
    IF Len(data) < 5 THEN Invalid("Packet too short")
    ELSE IF data[1] # HEADER THEN Invalid("Invalid header (should be 0x01)")
    ELSE IF LengthRejected(data) THEN Invalid("Length mismatch")
    ELSE LET st == Scan(data, ScanStart)
         IN  IF st.threw THEN Invalid("RangeError")
             ELSE IF CrcRejected(data) THEN Invalid("CRC mismatch")
             ELSE [valid |-> TRUE, error |-> "", imei |-> st.imei,
                   deviceNumber |-> st.deviceNumber,
                   commandNumber |-> st.commandNumber, replyText |-> st.replyText,
                   hasAdditionalData |-> st.hasAdditionalData,
                   additionalData |-> st.additionalData]

----------------------------------------------------------------------------
(* validateCommandPacket *)

validateCommandPacket(pkt) ==
    IF Len(pkt) < 5 THEN [valid |-> FALSE, error |-> "Packet too short"]
    ELSE IF pkt[1] # HEADER
         THEN [valid |-> FALSE, error |-> "Invalid header (should be 0x01)"]
    ELSE IF ReadUInt16LE(pkt, 1) # Len(pkt) - 5
         THEN [valid |-> FALSE, error |-> "Length mismatch"]
    ELSE IF calculateCRC16(Slice(pkt, 0, Len(pkt) - 2)) # ReadUInt16LE(pkt, Len(pkt) - 2)
         THEN [valid |-> FALSE, error |-> "CRC mismatch"]
    ELSE [valid |-> TRUE, error |-> ""]

----------------------------------------------------------------------------
(* Codec harness: a field set is drawn, a buffer is produced from it (built, *)
(* built then damaged, or framed by hand) and handed to the decoders.        *)

\* "861774058687730" (TEST_IMEI) and "123456789012345", as character codes
IMEIs ==
    { <<56, 54, 49, 55, 55, 52, 48, 53, 56, 54, 56, 55, 55, 51, 48>>,
      <<49, 50, 51, 52, 53, 54, 55, 56, 57, 48, 49, 50, 51, 52, 53>> }

\* device number and command number, drawn together: least, mixed bytes, greatest
Numbers == { <<0, 0>>, <<258, 16909060>>, <<65535, 2147483647>> }

\* the characters 's' and '&'
Chars == {115, 38}

Texts == UNION { [1..n -> Chars] : n \in 0..MaxTextLen }

FieldSets ==
    { [imei |-> i, deviceNumber |-> n[1], commandNumber |-> n[2], commandText |-> t] :
        i \in IMEIs, n \in Numbers, t \in Texts }

\* field sets the builder must not accept: "12345", a 16-digit IMEI, device
\* numbers 65536 and -1, command number -1, a text of 256 characters
BadFieldSets ==
    LET good == [imei |-> <<56, 54, 49, 55, 55, 52, 48, 53, 56, 54, 56, 55, 55, 51, 48>>,
                 deviceNumber |-> 0, commandNumber |-> 0, commandText |-> <<>>]
    IN  { [good EXCEPT !.imei = <<49, 50, 51, 52, 53>>],
          [good EXCEPT !.imei = @ \o <<57>>],
          [good EXCEPT !.deviceNumber = 65536],
          [good EXCEPT !.deviceNumber = -1],
          [good EXCEPT !.commandNumber = -1],
          [good EXCEPT !.commandText = [i \in 1..256 |-> 115]] }

\* what the menu of the manual tester can hand to sendCommand: GET_STATUS,
\* SET_OUTPUT with output states, SET_CONFIG with an interval, a custom command
\* with both, and the custom commands 0x100 and SET_OUTPUT 65536
ManualCommands ==
    { [type |-> 2, data |-> NoData],
      [type |-> 1, data |-> [NoData EXCEPT !.outputStates = <<5>>]],
      [type |-> 3, data |-> [NoData EXCEPT !.interval = <<60>>]],
      [type |-> 8, data |-> [outputStates |-> <<15>>, interval |-> <<300>>]],
      [type |-> 256, data |-> NoData],
      [type |-> 1, data |-> [NoData EXCEPT !.outputStates = <<65536>>]],
      [type |-> 1, data |-> [NoData EXCEPT !.outputStates = <<-1>>]] }

\* the first test command: "status" for TEST_IMEI and TEST_DEVICE_NUMBER
TestFieldSets ==
    { [imei |-> <<56, 54, 49, 55, 55, 52, 48, 53, 56, 54, 56, 55, 55, 51, 48>>,
       deviceNumber |-> 0, commandNumber |-> 16909060,
       commandText |-> <<115, 116, 97, 116, 117, 115>>] }

\* the longest text the length byte holds: 255 characters
LongestText == [i \in 1..255 |-> 115]

NotCalled == Invalid("not called")
NotValidated == [valid |-> FALSE, error |-> "not called"]

Built(f) == buildCommandPacket(f.imei, f.deviceNumber, f.commandText, f.commandNumber)

\* buffer with bit b (0..7) of the byte at offset o inverted
FlipBit(data, o, b) ==
    [data EXCEPT ![o + 1] = IF (@ \div (2 ^ b)) % 2 = 1 THEN @ - 2 ^ b ELSE @ + 2 ^ b]

\* commandBuilder.buildCommandPacket(imei, deviceNumber, commandText, commandNumber)
\* a RangeError inside the builder ends the call without a packet
Build ==
    /\ cphase = "input"
    /\ packet' = Built(fields).packet
    /\ origin' = [kind |-> IF Built(fields).threw THEN "threw" ELSE "built", arg |-> 0]
    /\ cphase' = IF Built(fields).threw THEN "failed" ELSE "ready"
    /\ UNCHANGED <<fields, result, vresult, testerVars, engineVars>>

\* the manual tester's commandBuilder.buildCommandPacket(commandType, imei, commandData)
BuildManual ==
    /\ cphase = "input"
    /\ \E m \in ManualCommands :
          LET built == manualBuildCommandPacket(m.type, fields.imei, m.data)
          IN  /\ packet' = built.packet
              /\ origin' = [kind |-> IF built.threw THEN "manual-threw" ELSE "manual",
                            arg |-> m.type]
              /\ cphase' = IF built.threw THEN "failed" ELSE "ready"
    /\ commandId' = commandId + 1
    /\ UNCHANGED <<fields, result, vresult, callVars, engineVars>>

\* one bit of a built packet is inverted on the way
Flip ==
    /\ cphase = "ready"
    /\ origin.kind = "built"
    /\ \E i \in 0..(8 * Len(packet) - 1) :
          /\ packet' = FlipBit(packet, i \div 8, i % 8)
          /\ origin' = [kind |-> "flipped", arg |-> i]
    /\ UNCHANGED <<cphase, fields, result, vresult, testerVars, engineVars>>

\* the last k bytes of a built packet are lost on the way
Truncate ==
    /\ cphase = "ready"
    /\ origin.kind = "built"
    /\ \E k \in 1..Len(packet) :
          /\ packet' = SubSeq(packet, 1, Len(packet) - k)
          /\ origin' = [kind |-> "truncated", arg |-> k]
    /\ UNCHANGED <<cphase, fields, result, vresult, testerVars, engineVars>>

\* a peer frames the same tagged fields itself: the length field counts the
\* fields alone (arg 0 or 1) or the fields and the checksum (arg 2 or 3); the
\* checksum is right (even arg) or off by one (odd arg)
Craft ==
    /\ cphase = "input"
    /\ ~Built(fields).threw
    /\ \E extra \in {0, 2}, damage \in {0, 1} :
          LET body == TaggedFields(fields.imei, fields.deviceNumber,
                                   fields.commandText, fields.commandNumber)
              unsigned == <<HEADER>> \o UInt16LE(Len(body) + extra) \o body
              crc == Xor(calculateCRC16(unsigned), damage)
          IN  /\ packet' = Framed(HEADER, Len(body) + extra, body, crc)
              /\ origin' = [kind |-> "crafted", arg |-> extra + damage]
    /\ cphase' = "ready"
    /\ UNCHANGED <<fields, result, vresult, testerVars, engineVars>>

\* field sections a peer may send that the builder never produces, framed as
\* the parser expects them (length field = fields + checksum):
\*   1  a text whose length byte reaches past the checksum
\*   2  a command number with one byte where four are due
\*   3  an IMEI of ten bytes
\*   4  a device number of one byte
\*   5  the unknown tag 0x99 directly before the device number and command number
\*   6  the unknown tag 0x99 and one value byte before the same fields
\*   7  additional data and a text
ForgedBodies(f) ==
    LET numbers == <<TAG_DEVICE>> \o UInt16LE(f.deviceNumber)
                      \o <<TAG_NUMBER>> \o UInt32LE(f.commandNumber)
    IN  << <<TAG_TEXT, 5, 115>>,
           <<TAG_NUMBER, 1>>,
           <<TAG_IMEI>> \o SubSeq(ImeiField(f.imei), 1, 10),
           <<TAG_DEVICE, 7>>,
           <<153>> \o numbers,
           <<153, 0>> \o numbers,
           <<TAG_EXTRA, 2, 7, 9, TAG_TEXT, 1, 115>> >>

\* a peer sends one of these sections with a right (even arg) or wrong (odd arg)
\* checksum; arg is ten times the number of the section, plus the damage
Forge ==
    /\ cphase = "input"
    /\ ~Built(fields).threw
    /\ \E k \in 1..Len(ForgedBodies(fields)), damage \in {0, 1} :
          LET body == ForgedBodies(fields)[k]
              unsigned == <<HEADER>> \o UInt16LE(Len(body) + 2) \o body
              crc == Xor(calculateCRC16(unsigned), damage)
          IN  /\ packet' = Framed(HEADER, Len(body) + 2, body, crc)
              /\ origin' = [kind |-> "forged", arg |-> 10 * k + damage]
    /\ cphase' = "ready"
    /\ UNCHANGED <<fields, result, vresult, testerVars, engineVars>>

\* the five known tagged fields of a reply: the four of the builder and
\* additional data
Blocks(f) ==
    << <<TAG_IMEI>> \o ImeiField(f.imei),
       <<TAG_DEVICE>> \o UInt16LE(f.deviceNumber),
       <<TAG_NUMBER>> \o UInt32LE(f.commandNumber),
       <<TAG_TEXT>> \o <<Len(AsciiEncode(f.commandText))>> \o AsciiEncode(f.commandText),
       <<TAG_EXTRA, 2, 7, 9>> >>

\* items without its i-th element
Without(items, i) == SubSeq(items, 1, i - 1) \o SubSeq(items, i + 1, Len(items))

\* the k-th ordering of items, k in 0..Len(items)! - 1; ordering 0 keeps the order
RECURSIVE NthPermutation(_, _)
NthPermutation(k, items) ==
    IF items = <<>> THEN <<>>
    ELSE LET i == (k % Len(items)) + 1
         IN  <<items[i]>> \o NthPermutation(k \div Len(items), Without(items, i))

RECURSIVE Concat(_)
Concat(seqs) == IF seqs = <<>> THEN <<>> ELSE Head(seqs) \o Concat(Tail(seqs))

\* a peer sends the five fields in any of their 120 orders, length field and
\* checksum computed over the reordered section, and the data handler parses
\* what arrived; the length field counts the fields alone (kind "permuted-5")
\* or the fields and the checksum (kind "permuted")
Permute ==
    /\ cphase = "input"
    /\ ~Built(fields).threw
    /\ \E k \in 0..119, extra \in {0, 2} :
          \E body \in {Concat(NthPermutation(k, Blocks(fields)))} :
          \E unsigned \in {<<HEADER>> \o UInt16LE(Len(body) + extra) \o body} :
          \E data \in {unsigned \o UInt16LE(calculateCRC16(unsigned))} :
              /\ packet' = data
              /\ result' = parseResponsePacket(data)
              /\ origin' = [kind |-> IF extra = 0 THEN "permuted-5" ELSE "permuted",
                            arg |-> k]
    /\ cphase' = "done"
    /\ UNCHANGED <<fields, vresult, testerVars, engineVars>>

\* commandBuilder.parseResponsePacket(data)
Parse ==
    /\ cphase = "ready"
    /\ result' = parseResponsePacket(packet)
    /\ cphase' = "done"
    /\ UNCHANGED <<fields, packet, origin, vresult, testerVars, engineVars>>

\* validateCommandPacket(packet)
Validate ==
    /\ cphase = "ready"
    /\ vresult' = validateCommandPacket(packet)
    /\ cphase' = "done"
    /\ UNCHANGED <<fields, packet, origin, result, testerVars, engineVars>>

NextCodec ==
    \/ Build
    \/ BuildManual
    \/ Flip
    \/ Truncate
    \/ Craft
    \/ Forge
    \/ Permute
    \/ Parse
    \/ Validate

----------------------------------------------------------------------------
(* The manual tester's sendCommand.  Every call owns a socket (client), a    *)
(* promise and a 10 s timer; its handlers close over them.  The menu awaits  *)
(* one call before it asks for the next command, so a call starts only when  *)
(* no promise is pending; timers of earlier calls may still be armed.        *)

Calls == 1..MaxCalls

\* the reply of a Galileosky device (and of the mock device) to a command: a
\* packet of the same layout with the command number n and a reply text
DeviceReply(n) ==
    buildCommandPacket(<<56, 54, 49, 55, 55, 52, 48, 53, 56, 54, 56, 55, 55, 51, 48>>,
                       0, <<115>>, n).packet

\* the responses a device may send: confirmation, status, another header, a stub,
\* a reply with command number 0 and one with command number 1
Responses ==
    { <<2, 6, 0>>, <<1, 0, 0>>, <<9, 0, 0>>, <<2>>, DeviceReply(0), DeviceReply(1) }

\* what the menu hands to sendCommand.  Choices 1, 3, 7 and 9 ask for a value
\* first and call sendCommand from the rl.question callback; choices 2, 4, 5, 6
\* and 8 call it from handleMenuSelection itself
MenuSelections ==
    { [choice |-> 2, command |-> [type |-> 2, data |-> NoData]],
      [choice |-> 1, command |-> [type |-> 1, data |-> [NoData EXCEPT !.outputStates = <<5>>]]],
      [choice |-> 1, command |-> [type |-> 1, data |-> [NoData EXCEPT !.outputStates = <<65536>>]]],
      [choice |-> 1, command |-> [type |-> 1, data |-> [NoData EXCEPT !.outputStates = <<-1>>]]],
      [choice |-> 9, command |-> [type |-> 256, data |-> NoData]] }

\* no handler awaits a sendCommand
NoSelection == [choice |-> -1, command |-> [type |-> 0, data |-> NoData]]

\* whether the await of sendCommand is inside the try of handleMenuSelection:
\* its catch handles a rejection.  The rl.question callbacks have no try, and
\* a rejection of their await is an unhandled rejection
Caught(choice) == choice \in {2, 4, 5, 6, 8}

\* TEST_CONFIG.deviceIMEI = '861774058687730'
DEVICE_IMEI == <<56, 54, 49, 55, 55, 52, 48, 53, 56, 54, 56, 55, 55, 51, 48>>

\* resolve() and reject(error): only the first call on a promise settles it,
\* and the menu handler that awaited it goes on
Settle(c, state, by) ==
    /\ promise' = [promise EXCEPT ![c] = IF @ = "pending" THEN state ELSE @]
    /\ settledBy' = [settledBy EXCEPT ![c] = IF promise[c] = "pending" THEN by ELSE @]
    /\ awaiting' = IF promise[c] = "pending" THEN NoSelection ELSE awaiting

\* the menu handler goes on after the await of a promise that call c settles
\* now: a rejection is caught only by the try of handleMenuSelection, and the
\* askForCommand() that follows throws once the readline interface is closed
\* (also from the catch); either way the rejection is unhandled and the
\* process ends.  Nothing goes on when the promise was settled before
Resume(c, rejected) ==
    proc' = IF promise[c] = "pending"
               /\ (stdin = "ended" \/ (rejected /\ ~Caught(awaiting.choice)))
            THEN "unhandled rejection"
            ELSE proc

\* client.destroy()
Destroy(c) == sock' = [sock EXCEPT ![c] = "destroyed"]

\* what the data handler logs for a response
Classify(data) ==
    IF Len(data) >= 3
    THEN IF data[1] = 2 THEN "confirmation"
         ELSE IF data[1] = 1 THEN "status"
         ELSE "unknown"
    ELSE "raw"

\* the first menu, shown by the callbacks of the reachability check:
\* showMenu(); askForCommand().  With the readline interface closed rl.question
\* throws, uncaught in the socket callback, and the process ends
FirstMenu ==
    proc' = IF stdin = "ended" THEN "uncaught exception" ELSE proc

\* testClient's connect callback: log, testClient.destroy(), first menu
Reachable ==
    /\ proc = "running"
    /\ testClient = "connecting"
    /\ testClient' = "destroyed"
    /\ FirstMenu
    /\ UNCHANGED <<promise, settledBy, sock, timer, written, closeLogged, timeoutLogged,
                   dataLogged, errorLogged, lateData, commandId, received, awaiting,
                   stdin, codecVars, engineVars>>

\* testClient's error handler (the socket is destroyed by its error): log the
\* advice, first menu
Unreachable ==
    /\ proc = "running"
    /\ testClient = "connecting"
    /\ testClient' = "destroyed"
    /\ FirstMenu
    /\ UNCHANGED <<promise, settledBy, sock, timer, written, closeLogged, timeoutLogged,
                   dataLogged, errorLogged, lateData, commandId, received, awaiting,
                   stdin, codecVars, engineVars>>

\* sendCommand(commandType, commandData): new socket, connect, handlers, timer
Call(c) ==
    /\ proc = "running"
    /\ stdin = "open"
    /\ testClient # "connecting"
    /\ promise[c] = "none"
    /\ \A d \in Calls : promise[d] # "pending" /\ (d < c => promise[d] # "none")
    /\ \E m \in MenuSelections : awaiting' = m
    /\ promise' = [promise EXCEPT ![c] = "pending"]
    /\ sock' = [sock EXCEPT ![c] = "connecting"]
    /\ timer' = [timer EXCEPT ![c] = "armed"]
    /\ UNCHANGED <<settledBy, written, closeLogged, timeoutLogged, dataLogged,
                   errorLogged, lateData, commandId, received, proc,
                   stdin, testClient, codecVars, engineVars>>

\* the connect callback: build the command packet (commandId++) and write it.
\* A RangeError of the builder leaves the callback uncaught: nothing is
\* written and the process ends
Connected(c) ==
    /\ proc = "running"
    /\ sock[c] = "connecting"
    /\ sock' = [sock EXCEPT ![c] = "open"]
    /\ commandId' = commandId + 1
    /\ IF manualBuildCommandPacket(awaiting.command.type, DEVICE_IMEI,
                                   awaiting.command.data).threw
       THEN /\ proc' = "uncaught exception"
            /\ UNCHANGED written
       ELSE /\ written' = [written EXCEPT ![c] = @ + 1]
            /\ UNCHANGED proc
    /\ UNCHANGED <<promise, settledBy, timer, closeLogged, timeoutLogged, dataLogged,
                   errorLogged, lateData, received, awaiting, stdin, testClient, codecVars, engineVars>>

\* client.on('data'): log the response, destroy the socket, resolve
Data(c) ==
    /\ proc = "running"
    /\ sock[c] = "open"
    /\ \E data \in Responses :
          /\ dataLogged' = [dataLogged EXCEPT ![c] = Classify(data)]
          /\ received' = [received EXCEPT ![c] = data]
    /\ Destroy(c)
    /\ Settle(c, "resolved", "data")
    /\ Resume(c, FALSE)
    /\ UNCHANGED <<timer, written, closeLogged, timeoutLogged, errorLogged, lateData,
                   commandId, stdin, testClient, codecVars, engineVars>>

\* client.on('error'): log, destroy the socket, reject.  The rejection reaches
\* the await of the menu handler: caught by handleMenuSelection, or unhandled
\* in an rl.question callback, which ends the process
Error(c) ==
    /\ proc = "running"
    /\ sock[c] \in {"connecting", "open"}
    /\ errorLogged' = [errorLogged EXCEPT ![c] = TRUE]
    /\ Destroy(c)
    /\ Settle(c, "rejected", "error")
    /\ Resume(c, TRUE)
    /\ UNCHANGED <<timer, written, closeLogged, timeoutLogged, dataLogged, lateData,
                   commandId, received, stdin, testClient, codecVars, engineVars>>

\* the device ends the connection: the socket closes, no handler settles anything
Disconnect(c) ==
    /\ proc = "running"
    /\ sock[c] = "open"
    /\ Destroy(c)
    /\ UNCHANGED <<promise, settledBy, timer, written, closeLogged, timeoutLogged,
                   dataLogged, errorLogged, lateData, commandId, received,
                   proc, awaiting, stdin, testClient, codecVars, engineVars>>

\* client.on('close'): log only
Close(c) ==
    /\ proc = "running"
    /\ sock[c] = "destroyed"
    /\ ~closeLogged[c]
    /\ closeLogged' = [closeLogged EXCEPT ![c] = TRUE]
    /\ UNCHANGED <<promise, settledBy, sock, timer, written, timeoutLogged, dataLogged,
                   errorLogged, lateData, commandId, received, proc, awaiting,
                   stdin, testClient, codecVars, engineVars>>

\* the setTimeout callback without its client.destroy()
TimeoutKeepsSocket(c) ==
    /\ proc = "running"
    /\ timer[c] = "armed"
    /\ timer' = [timer EXCEPT ![c] = "fired"]
    /\ timeoutLogged' = [timeoutLogged EXCEPT ![c] = TRUE]
    /\ Settle(c, "resolved", "timeout")
    /\ Resume(c, FALSE)
    /\ UNCHANGED <<sock, written, closeLogged, dataLogged, errorLogged, lateData,
                   commandId, received, stdin, testClient, codecVars, engineVars>>

\* a setTimeout callback that writes the command again and waits once more
\* before it gives up
TimeoutRetrying(c) ==
    /\ proc = "running"
    /\ timer[c] = "armed"
    /\ IF sock[c] = "open" /\ promise[c] = "pending" /\ written[c] = 1
       THEN /\ written' = [written EXCEPT ![c] = @ + 1]
            /\ UNCHANGED <<promise, settledBy, awaiting, sock, timer, timeoutLogged,
                           proc>>
       ELSE /\ timer' = [timer EXCEPT ![c] = "fired"]
            /\ timeoutLogged' = [timeoutLogged EXCEPT ![c] = TRUE]
            /\ Destroy(c)
            /\ Settle(c, "resolved", "timeout")
            /\ Resume(c, FALSE)
            /\ UNCHANGED written
    /\ UNCHANGED <<closeLogged, dataLogged, errorLogged, lateData, commandId, received,
                   stdin, testClient, codecVars, engineVars>>

\* the setTimeout callback, never cleared: log, destroy the socket, resolve
Timeout(c) ==
    /\ proc = "running"
    /\ timer[c] = "armed"
    /\ timer' = [timer EXCEPT ![c] = "fired"]
    /\ timeoutLogged' = [timeoutLogged EXCEPT ![c] = TRUE]
    /\ Destroy(c)
    /\ Settle(c, "resolved", "timeout")
    /\ Resume(c, FALSE)
    /\ UNCHANGED <<written, closeLogged, dataLogged, errorLogged, lateData, commandId,
                   received, stdin, testClient, codecVars, engineVars>>

\* the late packets of calls 1..n together
RECURSIVE LateTotal(_)
LateTotal(n) == IF n = 0 THEN 0 ELSE lateData[n] + LateTotal(n - 1)

\* a response reaches the connection after client.destroy(): the socket emits
\* no 'data' event, so no handler runs
LateData(c) ==
    /\ proc = "running"
    /\ sock[c] = "destroyed"
    /\ LateTotal(MaxCalls) < MaxLate
    /\ lateData' = [lateData EXCEPT ![c] = @ + 1]
    /\ UNCHANGED <<promise, settledBy, sock, timer, written, closeLogged, timeoutLogged,
                   dataLogged, errorLogged, commandId, received, proc, awaiting,
                   stdin, testClient, codecVars, engineVars>>

\* menu choice '0', read when the menu asks for a command: rl.close() and
\* process.exit(0)
Quit ==
    /\ proc = "running"
    /\ stdin = "open"
    /\ testClient # "connecting"
    /\ \A c \in Calls : promise[c] # "pending"
    /\ stdin' = "ended"
    /\ proc' = "exited"
    /\ UNCHANGED <<promise, settledBy, sock, timer, written, closeLogged, timeoutLogged,
                   dataLogged, errorLogged, lateData, commandId, received, awaiting,
                   testClient, codecVars, engineVars>>

\* the SIGINT handler, on a signal at any time: rl.close() and process.exit(0)
Sigint ==
    /\ proc = "running"
    /\ stdin' = "ended"
    /\ proc' = "exited"
    /\ UNCHANGED <<promise, settledBy, sock, timer, written, closeLogged, timeoutLogged,
                   dataLogged, errorLogged, lateData, commandId, received, awaiting,
                   testClient, codecVars, engineVars>>

\* the input ends (end of stdin; Ctrl-C or Ctrl-D typed on a terminal): the
\* readline interface closes, no handler of the script runs
InputEnd ==
    /\ proc = "running"
    /\ stdin = "open"
    /\ stdin' = "ended"
    /\ UNCHANGED <<promise, settledBy, sock, timer, written, closeLogged, timeoutLogged,
                   dataLogged, errorLogged, lateData, commandId, received, proc,
                   awaiting, testClient, codecVars, engineVars>>

\* with the input ended, the reachability check over, no timer armed and every
\* socket closed, nothing keeps
\* the event loop alive: the process ends
LoopEmpty ==
    /\ proc = "running"
    /\ stdin = "ended"
    /\ testClient # "connecting"
    /\ \A c \in Calls :
          /\ timer[c] # "armed"
          /\ sock[c] \notin {"connecting", "open"}
          /\ sock[c] = "destroyed" => closeLogged[c]
    /\ proc' = "exited"
    /\ UNCHANGED <<promise, settledBy, sock, timer, written, closeLogged, timeoutLogged,
                   dataLogged, errorLogged, lateData, commandId, received, awaiting,
                   stdin, testClient, codecVars, engineVars>>

NextTester ==
    \/ Reachable
    \/ Unreachable
    \/ \E c \in Calls : Call(c)
    \/ \E c \in Calls : Connected(c)
    \/ \E c \in Calls : Data(c)
    \/ \E c \in Calls : Error(c)
    \/ \E c \in Calls : Disconnect(c)
    \/ \E c \in Calls : Close(c)
    \/ \E c \in Calls : Timeout(c)
    \/ \E c \in Calls : LateData(c)
    \/ Quit
    \/ Sigint
    \/ InputEnd
    \/ LoopEmpty

----------------------------------------------------------------------------
(* Connection registry, correlation engine and dispatch facade: the server   *)
(* side behind /api/command and /api/connected-devices.  A request carries   *)
(* the command number buildCommandPacket draws when it is given none.        *)

SessionIds == 1..MaxSessions
ReqIds == 1..MaxRequests

\* commandNumber = Math.floor(Math.random() * 0xFFFFFFFF): any of 0..0xFFFFFFFE,
\* drawn afresh on every call; two values stand for the range
RandomCommandNumbers == {0, 16909060}

\* a request before sendCommand creates it: session 0 and number -1 mean none;
\* reply is the command number of the packet that settled it, -1 while none has
NoRequest ==
    [state |-> "unused", imei |-> <<>>, session |-> 0, number |-> -1,
     timer |-> "none", reply |-> -1]

NoSession == [state |-> "unused", imei |-> <<>>, outstanding |-> {}]

\* lookup(imei): the sessions the registry holds for imei
lookup(imei) == { e.session : e \in { x \in registry : x.imei = imei } }

\* the requests outstanding on any of the sessions in ss
OutstandingOn(ss) == UNION { sessions[s].outstanding : s \in ss }

\* the sessions in ss end: each is closed and its table emptied
Closed(ss) ==
    [s \in SessionIds |->
        IF s \in ss THEN [sessions[s] EXCEPT !.state = "closed", !.outstanding = {}]
        ELSE sessions[s]]

\* every request outstanding on a session in ss is settled as disconnected
Disconnected(ss) ==
    [r \in ReqIds |->
        IF r \in OutstandingOn(ss)
        THEN [requests[r] EXCEPT !.state = "disconnected", !.timer = "cancelled"]
        ELSE requests[r]]

\* register that installs the new session beside the prior one
registerKeepingPrior(imei) ==
    /\ nextSession <= MaxSessions
    /\ sessions' = [sessions EXCEPT ![nextSession] =
                       [state |-> "live", imei |-> imei, outstanding |-> {}]]
    /\ registry' = registry \cup { [imei |-> imei, session |-> nextSession] }
    /\ nextSession' = nextSession + 1
    /\ UNCHANGED <<requests, wire, late, codecVars, testerVars>>

\* register(imei, session): a prior session of imei is terminated first
register(imei) ==
    /\ nextSession <= MaxSessions
    /\ LET old == lookup(imei)
           new == nextSession
       IN  /\ sessions' = [Closed(old) EXCEPT ![new] =
                              [state |-> "live", imei |-> imei, outstanding |-> {}]]
           /\ requests' = Disconnected(old)
           /\ registry' = { e \in registry : e.imei # imei }
                             \cup { [imei |-> imei, session |-> new] }
    /\ nextSession' = nextSession + 1
    /\ UNCHANGED <<wire, late, codecVars, testerVars>>

\* the transport of session s disconnects: unregister and settle its requests
unregister(s) ==
    /\ sessions[s].state = "live"
    /\ sessions' = Closed({s})
    /\ requests' = Disconnected({s})
    /\ registry' = { e \in registry : e.session # s }
    /\ UNCHANGED <<wire, nextSession, late, codecVars, testerVars>>

\* sendCommand that writes the command before it learns the device is absent
dispatchWritingFirst(imei, r) ==
    /\ requests[r].state = "unused"
    /\ \A q \in ReqIds : q < r => requests[q].state # "unused"
    /\ wire' = [wire EXCEPT ![r] = @ + 1]
    /\ IF lookup(imei) = {}
       THEN /\ requests' = [requests EXCEPT ![r] =
                              [NoRequest EXCEPT !.state = "device-not-connected",
                                                !.imei = imei]]
            /\ UNCHANGED sessions
       ELSE \E s \in lookup(imei), n \in RandomCommandNumbers :
            /\ requests' = [requests EXCEPT ![r] =
                              [state |-> "pending", imei |-> imei, session |-> s,
                               number |-> n, timer |-> "armed", reply |-> -1]]
            /\ sessions' = [sessions EXCEPT ![s].outstanding = @ \cup {r}]
    /\ UNCHANGED <<registry, nextSession, late, codecVars, testerVars>>

\* sendCommand(imei, ...) as request r: look the session up; absent, fail at
\* once; present, allocate a number, record the request, write, start the timer
dispatch(imei, r) ==
    /\ requests[r].state = "unused"
    /\ \A q \in ReqIds : q < r => requests[q].state # "unused"
    /\ IF lookup(imei) = {}
       THEN /\ requests' = [requests EXCEPT ![r] =
                              [NoRequest EXCEPT !.state = "device-not-connected",
                                                !.imei = imei]]
            /\ UNCHANGED <<sessions, wire>>
       ELSE \E s \in lookup(imei), n \in RandomCommandNumbers :
            /\ requests' = [requests EXCEPT ![r] =
                              [state |-> "pending", imei |-> imei, session |-> s,
                               number |-> n, timer |-> "armed", reply |-> -1]]
            /\ sessions' = [sessions EXCEPT ![s].outstanding = @ \cup {r}]
            /\ wire' = [wire EXCEPT ![r] = @ + 1]
    /\ UNCHANGED <<registry, nextSession, late, codecVars, testerVars>>

\* the requests of session s with number n that are no longer outstanding
\* because they timed out or were cancelled
TooLateFor(s, n) ==
    { r \in ReqIds : /\ requests[r].session = s
                     /\ requests[r].number = n
                     /\ requests[r].state \in {"timeout", "cancelled"} }

\* onPacketReceived that settles the oldest outstanding request of the session
\* whatever number the packet carries
replyInArrivalOrder(s, n) ==
    /\ sessions[s].state = "live"
    /\ IF sessions[s].outstanding = {}
       THEN /\ late' = late \cup TooLateFor(s, n)
            /\ UNCHANGED <<sessions, requests>>
       ELSE LET r == CHOOSE x \in sessions[s].outstanding :
                         \A y \in sessions[s].outstanding : x <= y
            IN  /\ requests' = [requests EXCEPT ![r].state = "ok",
                                                ![r].timer = "cancelled",
                                                ![r].reply = n]
                /\ sessions' = [sessions EXCEPT ![s].outstanding = @ \ {r}]
                /\ UNCHANGED late
    /\ UNCHANGED <<registry, wire, nextSession, codecVars, testerVars>>

\* onPacketReceived(session, bytes) for a packet that decodes with command
\* number n: a matching outstanding request is settled and its timer
\* cancelled, anything else is dropped and reported
reply(s, n) ==
    /\ sessions[s].state = "live"
    /\ LET match == { r \in sessions[s].outstanding : requests[r].number = n }
       IN  IF match = {}
           THEN /\ late' = late \cup TooLateFor(s, n)
                /\ UNCHANGED <<sessions, requests>>
           ELSE \E r \in match :
                /\ requests' = [requests EXCEPT ![r].state = "ok",
                                                ![r].timer = "cancelled",
                                                ![r].reply = n]
                /\ sessions' = [sessions EXCEPT ![s].outstanding = @ \ {r}]
                /\ UNCHANGED late
    /\ UNCHANGED <<registry, wire, nextSession, codecVars, testerVars>>

\* the timer of request r fires: timeout outcome, out of the table, session kept
expire(r) ==
    /\ requests[r].timer = "armed"
    /\ requests' = [requests EXCEPT ![r].state = "timeout", ![r].timer = "fired"]
    /\ sessions' = [s \in SessionIds |->
                      [sessions[s] EXCEPT !.outstanding = @ \ {r}]]
    /\ UNCHANGED <<registry, wire, nextSession, late, codecVars, testerVars>>

\* cancel that marks the request and leaves it in the outstanding table
cancelKeepingEntry(r) ==
    /\ requests[r].state = "pending"
    /\ requests' = [requests EXCEPT ![r].state = "cancelled", ![r].timer = "cancelled"]
    /\ UNCHANGED <<sessions, registry, wire, nextSession, late, codecVars, testerVars>>

\* the caller cancels the pending result of request r: the request leaves the
\* table and its timer is cancelled
cancel(r) ==
    /\ requests[r].state = "pending"
    /\ requests' = [requests EXCEPT ![r].state = "cancelled", ![r].timer = "cancelled"]
    /\ sessions' = [s \in SessionIds |->
                      [sessions[s] EXCEPT !.outstanding = @ \ {r}]]
    /\ UNCHANGED <<registry, wire, nextSession, late, codecVars, testerVars>>

NextEngine ==
    \/ \E i \in IMEIs : register(i)
    \/ \E s \in SessionIds : unregister(s)
    \/ \E i \in IMEIs, r \in ReqIds : dispatch(i, r)
    \/ \E s \in SessionIds, n \in RandomCommandNumbers : reply(s, n)
    \/ \E r \in ReqIds : expire(r)
    \/ \E r \in ReqIds : cancel(r)

----------------------------------------------------------------------------
(* Specifications: one per component; the other components stay idle *)

NoFields ==
    [imei |-> <<>>, deviceNumber |-> 0, commandNumber |-> 0, commandText |-> <<>>]

\* a field set is drawn; no sendCommand yet, no session, no request
InitCodec ==
    /\ cphase = "input"
    /\ fields \in FieldSets \cup BadFieldSets \cup TestFieldSets
    /\ packet = <<>>
    /\ origin = [kind |-> "none", arg |-> 0]
    /\ result = NotCalled
    /\ vresult = NotValidated
    /\ promise = [c \in Calls |-> "none"]
    /\ settledBy = [c \in Calls |-> "none"]
    /\ sock = [c \in Calls |-> "none"]
    /\ timer = [c \in Calls |-> "none"]
    /\ written = [c \in Calls |-> 0]
    /\ closeLogged = [c \in Calls |-> FALSE]
    /\ timeoutLogged = [c \in Calls |-> FALSE]
    /\ dataLogged = [c \in Calls |-> "none"]
    /\ errorLogged = [c \in Calls |-> FALSE]
    /\ lateData = [c \in Calls |-> 0]
    /\ commandId = 0
    /\ received = [c \in Calls |-> <<>>]
    /\ proc = "running"
    /\ awaiting = NoSelection
    /\ stdin = "open"
    /\ testClient = "connecting"
    /\ registry = {}
    /\ sessions = [s \in SessionIds |-> NoSession]
    /\ requests = [r \in ReqIds |-> NoRequest]
    /\ wire = [r \in ReqIds |-> 0]
    /\ nextSession = 1
    /\ late = {}

\* before the first sendCommand of the manual tester
InitTester ==
    /\ cphase = "idle"
    /\ fields = NoFields
    /\ packet = <<>>
    /\ origin = [kind |-> "none", arg |-> 0]
    /\ result = NotCalled
    /\ vresult = NotValidated
    /\ promise = [c \in Calls |-> "none"]
    /\ settledBy = [c \in Calls |-> "none"]
    /\ sock = [c \in Calls |-> "none"]
    /\ timer = [c \in Calls |-> "none"]
    /\ written = [c \in Calls |-> 0]
    /\ closeLogged = [c \in Calls |-> FALSE]
    /\ timeoutLogged = [c \in Calls |-> FALSE]
    /\ dataLogged = [c \in Calls |-> "none"]
    /\ errorLogged = [c \in Calls |-> FALSE]
    /\ lateData = [c \in Calls |-> 0]
    /\ commandId = 0
    /\ received = [c \in Calls |-> <<>>]
    /\ proc = "running"
    /\ awaiting = NoSelection
    /\ stdin = "open"
    /\ testClient = "connecting"
    /\ registry = {}
    /\ sessions = [s \in SessionIds |-> NoSession]
    /\ requests = [r \in ReqIds |-> NoRequest]
    /\ wire = [r \in ReqIds |-> 0]
    /\ nextSession = 1
    /\ late = {}

\* the server with an empty registry and no request
InitEngine ==
    /\ cphase = "idle"
    /\ fields = NoFields
    /\ packet = <<>>
    /\ origin = [kind |-> "none", arg |-> 0]
    /\ result = NotCalled
    /\ vresult = NotValidated
    /\ promise = [c \in Calls |-> "none"]
    /\ settledBy = [c \in Calls |-> "none"]
    /\ sock = [c \in Calls |-> "none"]
    /\ timer = [c \in Calls |-> "none"]
    /\ written = [c \in Calls |-> 0]
    /\ closeLogged = [c \in Calls |-> FALSE]
    /\ timeoutLogged = [c \in Calls |-> FALSE]
    /\ dataLogged = [c \in Calls |-> "none"]
    /\ errorLogged = [c \in Calls |-> FALSE]
    /\ lateData = [c \in Calls |-> 0]
    /\ commandId = 0
    /\ received = [c \in Calls |-> <<>>]
    /\ proc = "running"
    /\ awaiting = NoSelection
    /\ stdin = "open"
    /\ testClient = "connecting"
    /\ registry = {}
    /\ sessions = [s \in SessionIds |-> NoSession]
    /\ requests = [r \in ReqIds |-> NoRequest]
    /\ wire = [r \in ReqIds |-> 0]
    /\ nextSession = 1
    /\ late = {}

SpecCodec == InitCodec /\ [][NextCodec]_vars

SpecTester == InitTester /\ [][NextTester]_vars

SpecEngine == InitEngine /\ [][NextEngine]_vars


----------------------------------------------------------------------------
(* Claims *)

Parsed == cphase = "done" /\ result.error # "not called"
Validated == cphase = "done" /\ vresult.error # "not called"

\* the trailing two bytes, little-endian, against the CRC of all bytes before them
ChecksumAgrees(data) ==
    /\ Len(data) >= 2
    /\ data[Len(data) - 1] + 256 * data[Len(data)]
          = calculateCRC16(SubSeq(data, 1, Len(data) - 2))

\* C1: round trip: parsing the packet built from a valid field set succeeds and
\* returns the same IMEI, device number, command number and text
C1_RoundTrip ==
    (Parsed /\ origin.kind = "built") =>
        /\ result.valid
        /\ result.imei = fields.imei
        /\ result.deviceNumber = fields.deviceNumber
        /\ result.commandNumber = fields.commandNumber
        /\ result.replyText = fields.commandText

\* C2: once a call is settled, no later event of that call has any effect: the
\* outcome, the socket and what the call reported all stay as they are
C2_SettledOnce ==
    [][\A c \in Calls :
          settledBy[c] # "none" =>
              /\ settledBy'[c] = settledBy[c]
              /\ promise'[c] = promise[c]
              /\ sock'[c] = sock[c]
              /\ timeoutLogged'[c] = timeoutLogged[c]
              /\ dataLogged'[c] = dataLogged[c]
              /\ errorLogged'[c] = errorLogged[c]]_vars

\* C3: no two outstanding requests carry the same command number
C3_UniqueNumbers ==
    \A p, q \in ReqIds :
        (p # q /\ requests[p].state = "pending" /\ requests[q].state = "pending")
            => requests[p].number # requests[q].number

\* C4: once the connection of a call is gone and its close was handled, the
\* call is no longer pending
C4_DisconnectSettles ==
    \A c \in Calls : (sock[c] = "destroyed" /\ closeLogged[c]) => promise[c] # "pending"

\* C5: a call settled by its timeout stays settled by its timeout, and no
\* response that arrives afterwards is handled for it
C5_TimeoutFinal ==
    [][\A c \in Calls :
          settledBy[c] = "timeout" =>
              /\ settledBy'[c] = "timeout"
              /\ promise'[c] = promise[c]
              /\ dataLogged'[c] = dataLogged[c]]_vars

\* a call timed out, and a response arrived for it afterwards
C5_Witness ==
    \E c \in Calls :
        /\ settledBy[c] = "timeout"
        /\ promise[c] = "resolved"
        /\ lateData[c] > 0
        /\ dataLogged[c] = "none"

\* C6: the registry holds at most one session per IMEI, that session is live,
\* and no request is pending on a session the registry no longer holds: a
\* replaced session's requests were settled when it was replaced
C6_RegistryUnique ==
    /\ \A e1, e2 \in registry : e1.imei = e2.imei => e1 = e2
    /\ \A e \in registry :
          sessions[e.session].state = "live" /\ sessions[e.session].imei = e.imei
    /\ \A r \in ReqIds :
          requests[r].state = "pending" =>
              /\ [imei |-> requests[r].imei, session |-> requests[r].session] \in registry
              /\ r \in sessions[requests[r].session].outstanding
    /\ \A s \in SessionIds : sessions[s].state = "closed" => sessions[s].outstanding = {}

\* a device registered again while a request was outstanding on its prior session
C6_Witness ==
    \E r \in ReqIds :
        /\ requests[r].state = "disconnected"
        /\ sessions[requests[r].session].state = "closed"
        /\ \E e \in registry :
              e.imei = requests[r].imei /\ e.session # requests[r].session

\* C7: a sendCommand to an IMEI without a session ends as device-not-connected
\* and changes nothing else: no number, no timer, no table entry, no write
C7_NotConnected ==
    [][\A r \in ReqIds :
          (requests[r].state = "unused" /\ requests'[r].state # "unused"
              /\ lookup(requests'[r].imei) = {}) =>
              /\ requests'[r] = [NoRequest EXCEPT !.state = "device-not-connected",
                                                  !.imei = requests'[r].imei]
              /\ \A q \in ReqIds \ {r} : requests'[q] = requests[q]
              /\ UNCHANGED <<sessions, wire, registry, nextSession>>]_vars

\* a command was sent to a device that is not connected, while another is
C7_Witness ==
    /\ \E r \in ReqIds : requests[r].state = "device-not-connected"
    /\ registry # {}

\* C8: neither decoder returns valid for a buffer whose trailing checksum
\* differs from the CRC of the bytes before it
C8_ValidOnlyWithChecksum ==
    ((Parsed /\ result.valid) \/ (Validated /\ vresult.valid)) => ChecksumAgrees(packet)

\* a buffer that passes the size, header and length checks with a wrong checksum
C8_Witness ==
    /\ Parsed
    /\ origin = [kind |-> "crafted", arg |-> 3]
    /\ ~LengthRejected(packet)
    /\ ~ChecksumAgrees(packet)
    /\ result.error = "CRC mismatch"

\* C9: a built packet with one bit inverted parses to CRC mismatch; stated here
\* for the bits after the header and the length field (the tagged fields and
\* the checksum), which the header and length checks do not look at
C9_FieldFlipIsCrcMismatch ==
    (Parsed /\ origin.kind = "flipped" /\ origin.arg >= 24) =>
        result.error = "CRC mismatch"

\* C10: a built packet cut short by any number of bytes parses to Packet too
\* short or Length mismatch
C10_TruncationRejected ==
    (Parsed /\ origin.kind = "truncated") =>
        result.error \in {"Packet too short", "Length mismatch"}

\* a packet either builder returned, before or after it was decoded
Encoded == cphase \in {"ready", "done"} /\ origin.kind \in {"built", "manual"}

\* C11: in every packet a builder returns, the little-endian length field at
\* offset 1 is the byte count of the section between it and the checksum:
\* the packet's length less 5
C11_LengthField ==
    Encoded => ReadUInt16LE(packet, 1) = Len(packet) - 5

\* a built packet with a two-character text: 26 bytes of fields and the text
C11_Witness ==
    /\ cphase = "ready"
    /\ origin.kind = "built"
    /\ Len(fields.commandText) = 2
    /\ ReadUInt16LE(packet, 1) = 28
    /\ Len(packet) = 33

\* C12: every packet a builder returns ends with the little-endian CRC of all
\* bytes before it, and validateCommandPacket accepts every packet of the
\* builder it belongs to
C12_ChecksumAppended ==
    Encoded =>
        /\ ChecksumAgrees(packet)
        /\ (Validated /\ origin.kind = "built") => vresult = [valid |-> TRUE, error |-> ""]

\* a built packet with a text went through validateCommandPacket
C12_Witness ==
    /\ Validated
    /\ origin.kind = "built"
    /\ fields.commandText # <<>>
    /\ vresult.valid
    /\ ChecksumAgrees(packet)

\* C13: the builder returns a packet only for an IMEI of exactly 15 bytes, a
\* device number of 16 bits, a command number of 32 bits and a text of at most
\* 255 bytes
C13_EncodeRejects ==
    (origin.kind = "built") =>
        /\ Len(fields.imei) = IMEI_LEN
        /\ FitsUInt(fields.deviceNumber, 16)
        /\ FitsUInt(fields.commandNumber, 32)
        /\ Len(fields.commandText) <= 255

\* a response parseResponsePacket turns down at its first two checks: too
\* short to hold header, length and checksum, or not starting with 0x01
Malformed(data) ==
    parseResponsePacket(data).error
        \in {"Packet too short", "Invalid header (should be 0x01)"}

\* the command number a response carries, -1 when it is too short to be a packet
CommandNumberOf(data) ==
    IF Len(data) < 5 THEN -1 ELSE Scan(data, ScanStart).commandNumber

\* C14: a malformed response leaves the connection of the call open and its
\* promise as it was
C14_MalformedIgnored ==
    [][\A c \in Calls :
          (received'[c] # received[c] /\ Malformed(received'[c])) =>
              /\ sock'[c] = sock[c]
              /\ promise'[c] = promise[c]
              /\ settledBy'[c] = settledBy[c]]_vars

\* C15: the timeout of a call leaves the connection of that call as it was
C15_TimeoutKeepsConnection ==
    [][\A c \in Calls :
          (timer[c] = "armed" /\ timer'[c] = "fired") => sock'[c] = sock[c]]_vars

\* C16: a call is settled by a response only when the response is a
\* well-formed packet that carries the number of the call's command, the
\* builder's commandId; any other response leaves the call as it was
C16_OnlyMatchingReply ==
    [][\A c \in Calls :
          received'[c] # received[c] =>
              IF ~Malformed(received'[c]) /\ CommandNumberOf(received'[c]) = commandId
              THEN settledBy'[c] = "data"
              ELSE /\ promise'[c] = promise[c]
                   /\ settledBy'[c] = settledBy[c]
                   /\ sock'[c] = sock[c]]_vars

\* C19: no call writes its command to the socket more than once
C19_WrittenOnce ==
    \A c \in Calls : written[c] <= 1

\* a call wrote its command, got no response and was settled by its timeout
C19_Witness ==
    \E c \in Calls :
        /\ written[c] = 1
        /\ settledBy[c] = "timeout"
        /\ dataLogged[c] = "none"
        /\ sock[c] = "destroyed"

\* C20: no call of sendCommand ends in a rejected promise
C20_NeverRejected ==
    \A c \in Calls : promise[c] # "rejected"

\* C17: whatever the order of the replies, a reply settles one request, and
\* that request carries the command number of the reply
C17_RepliesByNumber ==
    [][\A r \in ReqIds :
          (requests[r].state = "pending" /\ requests'[r].state = "ok") =>
              /\ requests'[r].reply = requests[r].number
              /\ r \notin sessions'[requests[r].session].outstanding
              /\ \A q \in ReqIds \ {r} : requests'[q] = requests[q]]_vars

\* two requests with different numbers were outstanding on one session and the
\* reply to the later one came first
C17_Witness ==
    \E p, q \in ReqIds :
        /\ p < q
        /\ requests[p].state = "pending"
        /\ requests[q].state = "ok"
        /\ requests[p].session = requests[q].session
        /\ requests[p].number # requests[q].number
        /\ requests[q].reply = requests[q].number

\* C18: a cancelled request is in no outstanding table, and nothing that
\* happens afterwards, a reply with its number included, changes it
C18_CancelFinal ==
    [][\A r \in ReqIds :
          requests[r].state = "cancelled" =>
              /\ requests'[r] = requests[r]
              /\ \A s \in SessionIds :
                    r \notin sessions[s].outstanding /\ r \notin sessions'[s].outstanding]_vars

\* a reply with the number of a cancelled request came on its session
C18_Witness ==
    \E r \in late :
        /\ requests[r].state = "cancelled"
        /\ sessions[requests[r].session].state = "live"

\* C21: every packet a builder returns begins with the header byte 0x01; the
\* length, the fields and the checksum follow it
C21_HeaderByte ==
    Encoded => (Len(packet) >= 5 /\ packet[1] = HEADER)

\* the CRC as the protocol defines it, one message bit at a time: the bit is
\* compared with the lowest register bit, the register is shifted right by one,
\* and 0xA001 is exclusive-ored in when the two bits differed
RECURSIVE ReferenceCrcBits(_, _, _)
ReferenceCrcBits(byte, k, reg) ==
    IF k = 8 THEN reg
    ELSE LET bit == (byte \div (2 ^ k)) % 2
             feedback == (reg % 2) # bit
         IN  ReferenceCrcBits(byte, k + 1,
                              IF feedback THEN Xor(reg \div 2, 40961) ELSE reg \div 2)

RECURSIVE ReferenceCrcBytes(_, _, _)
ReferenceCrcBytes(bytes, i, reg) ==
    IF i > Len(bytes) \/ reg < 0 THEN reg
    ELSE ReferenceCrcBytes(bytes, i + 1, ReferenceCrcBits(bytes[i], 0, reg))

ReferenceCrc(bytes) == ReferenceCrcBytes(bytes, 1, 65535)

\* C22: for every buffer a builder returned, every prefix of one and every
\* buffer framed by hand, calculateCRC16 returns the reference CRC, a value of
\* 16 bits, and the manual tester's copy returns the same value
C22_CrcReference ==
    (cphase = "ready" /\ origin.kind \in {"built", "manual", "truncated", "crafted"}) =>
        LET crc == calculateCRC16(packet)
        IN  /\ crc = ReferenceCrc(packet)
            /\ crc \in 0..65535
            /\ manualCalculateCRC16(packet) = crc

\* a built packet of which only the first nine bytes arrived, and the empty
\* buffer's CRC is the initial register
C22_Witness ==
    /\ cphase = "ready"
    /\ origin.kind = "truncated"
    /\ Len(packet) = 9
    /\ calculateCRC16(packet) = ReferenceCrc(packet)
    /\ calculateCRC16(<<>>) = CRC_INIT

\* C23: a buffer of at least 5 bytes with the right header parses to Length
\* mismatch exactly when its length field differs from its length less 5
C23_LengthMismatchIff ==
    (Parsed /\ Len(packet) >= 5 /\ packet[1] = HEADER) =>
        ((result.error = "Length mismatch") <=> (ReadUInt16LE(packet, 1) # Len(packet) - 5))

\* the parse got as far as the field loop
Scanned ==
    Parsed /\ Len(packet) >= 5 /\ packet[1] = HEADER /\ ~LengthRejected(packet)

\* C24: a buffer that passes the size, header and length checks with a wrong
\* checksum parses to CRC mismatch, whatever its field bytes are
C24_ChecksumFirst ==
    (Scanned /\ ~ChecksumAgrees(packet)) => result.error = "CRC mismatch"

\* C25: a parse that returns valid has read no field byte at or past the
\* checksum: the scan ended exactly where the checksum begins
C25_ScanInsideFields ==
    (Scanned /\ result.valid) => Scan(packet, ScanStart).offset <= Len(packet) - 2

\* C26 as stated: after an unknown tag the byte right behind it is the next
\* one examined as a tag
C26_SkipTagOnly ==
    Scanned =>
        LET tags == Scan(packet, ScanStart).tags
        IN  \A i \in 1..(Len(tags) - 1) :
                packet[tags[i] + 1] \notin KnownTags => tags[i + 1] = tags[i] + 1

\* C26: after an unknown tag the decoder skips exactly one byte behind the tag:
\* the next byte examined as a tag is the second byte after the unknown tag
C26_SkipOneByteAfterTag ==
    Scanned =>
        LET tags == Scan(packet, ScanStart).tags
        IN  \A i \in 1..(Len(tags) - 1) :
                packet[tags[i] + 1] \notin KnownTags => tags[i + 1] = tags[i] + 2

\* the unknown tag 0x99 stood directly before the device number tag, and the
\* scan went on two bytes later
C26_Witness ==
    /\ Scanned
    /\ origin = [kind |-> "forged", arg |-> 50]
    /\ packet[4] = 153
    /\ packet[5] = TAG_DEVICE
    /\ Len(Scan(packet, ScanStart).tags) >= 2
    /\ Scan(packet, ScanStart).tags[2] = 5

\* C27: whatever the order of the five fields, the parse returns the same
\* result: the fields that were sent when the length field suits the parser,
\* Length mismatch when it counts the fields alone
C27_AnyTagOrder ==
    /\ (Parsed /\ origin.kind = "permuted") =>
          result = [valid |-> TRUE, error |-> "",
                    imei |-> AsciiDecode(ImeiField(fields.imei)),
                    deviceNumber |-> fields.deviceNumber,
                    commandNumber |-> fields.commandNumber,
                    replyText |-> AsciiDecode(AsciiEncode(fields.commandText)),
                    hasAdditionalData |-> TRUE,
                    additionalData |-> <<7, 9>>]
    /\ (Parsed /\ origin.kind = "permuted-5") => result = Invalid("Length mismatch")

\* additional data first and the IMEI last, with a text, parsed as valid
C27_Witness ==
    /\ Parsed
    /\ origin.kind = "permuted"
    /\ packet[4] = TAG_EXTRA
    /\ packet[Len(packet) - 17] = TAG_IMEI
    /\ result.valid
    /\ result.replyText # <<>>

\* C30: for every buffer handed to it parseResponsePacket returns: either a
\* valid result without error, or an invalid one with one of its error
\* messages (the caught RangeError among them); and in its loop every tag is
\* read at a higher offset than the one before, the offset ending above the last
C30_ParseTotal ==
    Parsed =>
        /\ \/ result.valid /\ result.error = ""
           \/ /\ ~result.valid
              /\ result.error \in {"Packet too short", "Invalid header (should be 0x01)",
                                    "Length mismatch", "CRC mismatch", "RangeError"}
        /\ Scanned =>
              LET st == Scan(packet, ScanStart)
              IN  /\ \A i \in 1..(Len(st.tags) - 1) : st.tags[i] < st.tags[i + 1]
                  /\ st.tags # <<>> => st.tags[Len(st.tags)] < st.offset

\* a command number tag with one byte behind it: the read leaves the buffer
\* and the parse still returns a result
C30_Witness ==
    /\ Parsed
    /\ origin = [kind |-> "forged", arg |-> 20]
    /\ Scan(packet, ScanStart).threw
    /\ result = Invalid("RangeError")

\* C28: once a call was settled by a response, its timer does not fire
C28_TimerCancelled ==
    [][\A c \in Calls :
          settledBy[c] = "data" =>
              /\ ~(timer[c] = "armed" /\ timer'[c] = "fired")
              /\ timeoutLogged'[c] = timeoutLogged[c]]_vars

\* C29: a packet built from a text of n bytes is 31 + n bytes long: for every
\* text drawn, and, computed beside the packet for "status", for the longest
\* text of 255 bytes
C29_PacketLength ==
    (cphase \in {"ready", "done"} /\ origin.kind = "built") =>
        /\ Len(packet) = 31 + Len(fields.commandText)
        /\ (cphase = "ready" /\ fields \in TestFieldSets) =>
              Len(Built([fields EXCEPT !.commandText = LongestText]).packet) = 31 + 255

\* the packet built for "status" is 37 bytes long
C29_Witness ==
    /\ cphase = "ready"
    /\ origin.kind = "built"
    /\ fields.commandText = <<115, 116, 97, 116, 117, 115>>
    /\ Len(packet) = 37

\* C31: the promise returned by the manual tester's sendCommand is settled in
\* every run, whatever connect, data, error and close events occur: no run
\* ends with the promise pending, so the process never ends by itself, on an
\* uncaught exception or an unhandled rejection, while a promise is pending
C31_SettledInEveryRun ==
    \A c \in Calls :
        promise[c] = "pending" => proc \notin {"uncaught exception", "unhandled rejection"}

====
